---- MODULE Spec2Model ----
(***************************************************************************)
(* Task pool manager (kernel/src/task/manager.rs) of the ros kernel and    *)
(* the multilevel-feedback scheduler that allocates from it and frees to   *)
(* it.  TCBs are heap blocks named by their address 1, 2, 3, ...; the      *)
(* manager's empty_queue and the scheduler lists hold addresses, the       *)
(* task_map holds id -> address.                                           *)
(***************************************************************************)
EXTENDS Integers, Sequences, FiniteSets, TLC

\* TASKPOOL_SIZE is 1024 in manager.rs:10; the model runs a pool of this size.
TASKPOOL_SIZE == 3
\* usize/u64 arithmetic is modulo 2^64 in the kernel; the model's word wraps here.
USIZE_MOD == 5

VARIABLES
    tcb,          \* heap: address -> Task contents (every block malloc ever returned)
    empty_queue,  \* TaskManager.empty_queue: FIFO of recyclable TCB addresses
    task_map,     \* TaskManager.task_map: id -> address
    use_count,    \* TaskManager.use_count
    alloc_count,  \* TaskManager.alloc_count
    held,         \* addresses returned by allocate and not passed to free since
    last,         \* what the last manager call was and what it returned
    run,          \* allocate calls so far while no free and no malloc failure
                  \* has happened yet, -1 once one has
    ready,        \* scheduler: band -> FIFO of ready TCB addresses
    wait,         \* scheduler: tasks blocked on an event, each with its reason
    sleep,        \* scheduler: tasks blocked until a deadline, sorted by deadline
    die,          \* scheduler: ended tasks pending reaping
    current,      \* scheduler: the running TCB, 0 before init_task
    idle_task,    \* scheduler: the idle task's slot, 0 before init_task
    now,          \* global tick counter
    fpu_owner,    \* scheduler: the TCB whose registers occupy the FPU, 0 for none
    ts,           \* CPU: the "FPU unavailable" flag (CR0.TS)
    fpu_regs,     \* CPU: what the FPU registers hold
    fp_left,      \* per TCB: the value its task last left in the FPU registers
    last_fp,      \* the last FPU instruction, if it did not find what its task had left
    pc,           \* kernel_main: index of the next boot step, 0 when boot is not followed
    interrupts,   \* CPU: the interrupt flag
    boot_log      \* kernel_main: the subsystems initialised so far, in order

mvars == <<tcb, empty_queue, task_map, use_count, alloc_count>>
ovars == <<held, last, run>>
svars == <<ready, wait, sleep, die, current, idle_task, now>>
fkeep == <<fpu_owner, fpu_regs, fp_left, last_fp>>
fvars == <<fpu_owner, ts, fpu_regs, fp_left, last_fp>>
bvars == <<pc, interrupts, boot_log>>
vars == <<mvars, ovars, svars, fvars, bvars>>

--------------------------------------------------------------------------
(* Task contents.  A block fresh from malloc is uninitialised memory: the  *)
(* manager writes nothing but the id into it, so every other field holds   *)
(* arbitrary bytes, "uninit", until somebody writes it.                    *)

\* Task::default(): what a default-initialised TCB would hold.
DefaultTask ==
    [id |-> 0, parent |-> "None", child |-> "None", sibling |-> "None",
     context |-> "empty", fpu_context |-> "new",
     band |-> 0, ended |-> FALSE, idle |-> FALSE,
     remaining_quantum |-> 0, greedy_count |-> 0, fpu_used_once |-> FALSE]

UninitTask ==
    [id |-> "uninit", parent |-> "uninit", child |-> "uninit", sibling |-> "uninit",
     context |-> "uninit", fpu_context |-> "uninit",
     band |-> "uninit", ended |-> "uninit", idle |-> "uninit",
     remaining_quantum |-> "uninit", greedy_count |-> "uninit",
     fpu_used_once |-> "uninit"]

\* Priority bands, most urgent first.
N_BANDS == 2
Bands == 0 .. N_BANDS - 1

\* What malloc(size_of::<Task>(), 8) can give: null or a block.
HeapOutcomes == {"null", "block"}

Addresses == DOMAIN tcb

\* malloc hands out a block it never handed out before.
malloc(m) == IF m = "null" THEN 0 ELSE Cardinality(Addresses) + 1

NoLast == [op |-> "none", res |-> "none", task |-> 0, id |-> 0]

--------------------------------------------------------------------------
(* TaskManager::new *)

new ==
    /\ tcb = <<>>
    /\ empty_queue = <<>>
    /\ task_map = <<>>
    /\ use_count = 0
    /\ alloc_count = 0

--------------------------------------------------------------------------
(* TaskManager::allocate.  Each helper is one line of the method; allocate *)
(* returns the result and the manager's state after the call.              *)

Manager == [empty_queue |-> empty_queue, task_map |-> task_map,
            use_count |-> use_count, alloc_count |-> alloc_count, tcb |-> tcb]

\* (faulty variant: capacity test off by one)
pool_full_off_by_one == use_count > TASKPOOL_SIZE
pool_full == use_count >= TASKPOOL_SIZE

\* (faulty variant: the failing path has already advanced alloc_count)
alloc_err_counted ==
    [res |-> "Err", task |-> 0,
     mgr |-> [Manager EXCEPT !.alloc_count = (alloc_count + 1) % USIZE_MOD]]
alloc_err == [res |-> "Err", task |-> 0, mgr |-> Manager]

map_insert(map, id, task) ==
    [k \in DOMAIN map \cup {id} |-> IF k = id THEN task ELSE map[k]]

\* (faulty variant: wrapping_sub for wrapping_add)
next_alloc_count_sub == (alloc_count + USIZE_MOD - 1) % USIZE_MOD
next_alloc_count == (alloc_count + 1) % USIZE_MOD

\* (faulty variant: use_count not incremented)
alloc_use_count_same == use_count
alloc_use_count == use_count + 1

\* lines 48-53, for the TCB at address `task` whose contents are `t`.
alloc_commit(task, t, queue) ==
    [res |-> "Ok", task |-> task,
     mgr |-> [empty_queue |-> queue,
              task_map |-> map_insert(task_map, alloc_count, task),
              use_count |-> alloc_use_count,
              alloc_count |-> next_alloc_count,
              tcb |-> [a \in Addresses \cup {task} |->
                          IF a = task THEN [t EXCEPT !.id = alloc_count]
                          ELSE tcb[a]]]]

pop_head == Head(empty_queue)
\* (faulty variant: the head is read but left on the queue)
pop_rest_keeps_head == empty_queue
pop_rest == Tail(empty_queue)

\* (faulty variant: the heap is asked first, the empty-queue only if it fails)
allocate_heap_first(m) ==
    IF pool_full THEN alloc_err
    ELSE IF malloc(m) # 0
         THEN alloc_commit(malloc(m), UninitTask, empty_queue)
         ELSE IF empty_queue # <<>>
              THEN alloc_commit(pop_head, tcb[pop_head], pop_rest)
              ELSE alloc_err

allocate(m) ==
    IF pool_full THEN alloc_err
    ELSE IF empty_queue # <<>>
         THEN alloc_commit(pop_head, tcb[pop_head], pop_rest)
         ELSE IF malloc(m) = 0 THEN alloc_err
              ELSE alloc_commit(malloc(m), UninitTask, empty_queue)

--------------------------------------------------------------------------
(* TaskManager::free.  The prev/next link that free resets and the        *)
(* empty-queue then uses is the TCB's place in empty_queue here.           *)

map_remove(map, id) == [k \in DOMAIN map \ {id} |-> map[k]]

\* (faulty variant: use_count not decremented)
free_use_count_same == use_count
free_use_count == use_count - 1

free_cleared(t) ==
    [t EXCEPT !.parent = "None", !.child = "None", !.sibling = "None",
              !.context = "empty", !.fpu_context = "new"]

\* (faulty variant: the freed TCB is not pushed on the empty-queue)
free_queue_dropped(task) == empty_queue
free_queue(task) == Append(empty_queue, task)

free(task) ==
    [empty_queue |-> free_queue(task),
     task_map |-> map_remove(task_map, tcb[task].id),
     use_count |-> free_use_count,
     alloc_count |-> alloc_count,
     tcb |-> [tcb EXCEPT ![task] = free_cleared(tcb[task])]]

--------------------------------------------------------------------------
(* TaskManager::get *)

get(id) == IF id \in DOMAIN task_map THEN task_map[id] ELSE 0

--------------------------------------------------------------------------
(* The manager driven directly: any sequence of allocate and of free of a  *)
(* held task.                                                              *)

SetManager(mgr) ==
    /\ tcb' = mgr.tcb
    /\ empty_queue' = mgr.empty_queue
    /\ task_map' = mgr.task_map
    /\ use_count' = mgr.use_count
    /\ alloc_count' = mgr.alloc_count

SchedulerOff ==
    /\ ready = [b \in Bands |-> <<>>]
    /\ wait = <<>>
    /\ sleep = <<>>
    /\ die = <<>>
    /\ current = 0
    /\ idle_task = 0
    /\ now = 0

NoFp == [task |-> 0, found |-> "none", left |-> "none"]

\* No task owns the FPU; kernel_main leaves the FPU available (set_ts() is
\* commented out), and the registers hold the reset state.
FpuOff ==
    /\ fpu_owner = 0
    /\ ts = FALSE
    /\ fpu_regs = "reset"
    /\ fp_left = <<>>
    /\ last_fp = NoFp

Init ==
    /\ new
    /\ held = {}
    /\ last = NoLast
    /\ run = 0
    /\ SchedulerOff
    /\ FpuOff
    /\ pc = 0
    /\ interrupts = TRUE
    /\ boot_log = <<>>

Allocate ==
    \E m \in HeapOutcomes :
        LET r == allocate(m) IN
        /\ SetManager(r.mgr)
        /\ held' = IF r.res = "Ok" THEN held \cup {r.task} ELSE held
        /\ last' = [op |-> "allocate", res |-> r.res, task |-> r.task, id |-> 0]
        /\ run' = IF run < 0 \/ m = "null" THEN -1
                  ELSE IF run > TASKPOOL_SIZE THEN run ELSE run + 1
        /\ UNCHANGED <<svars, fvars, bvars>>

Free ==
    \E task \in held :
        /\ SetManager(free(task))
        /\ held' = held \ {task}
        /\ last' = [op |-> "free", res |-> "Ok", task |-> task, id |-> 0]
        /\ run' = -1
        /\ UNCHANGED <<svars, fvars, bvars>>

Get ==
    \E id \in 0 .. USIZE_MOD - 1 :
        /\ last' = [op |-> "get", res |-> IF get(id) = 0 THEN "NotFound" ELSE "Ok",
                    task |-> get(id), id |-> id]
        /\ UNCHANGED <<mvars, held, run, svars, fvars, bvars>>

Next == Allocate \/ Free

Spec == Init /\ [][Next]_vars

\* The same with lookups in between.
GetNext == Allocate \/ Free \/ Get

GetSpec == Init /\ [][GetNext]_vars

--------------------------------------------------------------------------
(* The scheduler: per-band ready FIFOs, wait, sleep and die lists, the     *)
(* idle slot and current.  It takes TCBs from allocate (create_task) and   *)
(* returns them with free (the reaper).                                    *)

\* Ticks a selected task may consume before it is re-queued.
QUANTUM == 2
\* Full quanta in a row after which a task is demoted one band.
GREEDY_THRESHOLD == 2
\* The tick counter stops here.
MaxTick == 4
Reasons == {"disk", "key"}

Min(a, b) == IF a < b THEN a ELSE b

Elems(q) == {q[i] : i \in DOMAIN q}
Tasks(q) == [i \in DOMAIN q |-> q[i].task]

RECURSIVE push_all(_, _, _)
\* Push the tasks of `q`, in order, each at the tail of the ready list of its band.
push_all(rdy, q, mem) ==
    IF q = <<>> THEN rdy
    ELSE push_all(
             [rdy EXCEPT ![mem[Head(q)].band] = Append(@, Head(q))], Tail(q), mem)

\* Selection: the head of the most urgent non-empty band, else the idle task.
select_band(rdy) ==
    CHOOSE b \in Bands : rdy[b] # <<>> /\ \A c \in Bands : c < b => rdy[c] = <<>>
\* (faulty variant: takes the tail of the band)
select_last(rdy) ==
    IF \A b \in Bands : rdy[b] = <<>>
    THEN [task |-> idle_task, ready |-> rdy]
    ELSE LET b == select_band(rdy)
             n == Len(rdy[b]) IN
         [task |-> rdy[b][n], ready |-> [rdy EXCEPT ![b] = SubSeq(@, 1, n - 1)]]
select(rdy) ==
    IF \A b \in Bands : rdy[b] = <<>>
    THEN [task |-> idle_task, ready |-> rdy]
    ELSE LET b == select_band(rdy) IN
         [task |-> Head(rdy[b]), ready |-> [rdy EXCEPT ![b] = Tail(@)]]

\* Selection and dispatch: the selected task becomes current with a full
\* quantum; a switch saves the outgoing task's registers in its cpu context
\* and marks the FPU unavailable.
Dispatch(mem, rdy) ==
    LET s == select(rdy) IN
    /\ current' = s.task
    /\ ready' = s.ready
    /\ ts' = IF s.task = current THEN ts ELSE TRUE
    /\ tcb' = IF s.task = current
              THEN [mem EXCEPT ![s.task].remaining_quantum = QUANTUM]
              ELSE [mem EXCEPT ![s.task].remaining_quantum = QUANTUM,
                               ![current].context = "saved"]

\* (faulty variant: full quanta are counted but the task is never demoted)
requeue_no_demotion(mem, rdy, greedy) ==
    IF current = idle_task THEN [tcb |-> mem, ready |-> rdy]
    ELSE LET t == mem[current]
             g == IF greedy THEN t.greedy_count + 1 ELSE t.greedy_count
         IN [tcb |-> [mem EXCEPT ![current].greedy_count = g],
             ready |-> [rdy EXCEPT ![t.band] = Append(@, current)]]

\* current goes back to the tail of a ready list (the idle task stays in its
\* slot); `greedy` says it used up its quantum without yielding.
requeue(mem, rdy, greedy) ==
    IF current = idle_task THEN [tcb |-> mem, ready |-> rdy]
    ELSE LET t == mem[current]
             g == IF greedy THEN t.greedy_count + 1 ELSE t.greedy_count
             demote == greedy /\ g >= GREEDY_THRESHOLD
             b == IF demote THEN Min(t.band + 1, N_BANDS - 1) ELSE t.band
             mem2 == [mem EXCEPT ![current].band = b,
                                 ![current].greedy_count = IF demote THEN 0 ELSE g]
         IN [tcb |-> mem2, ready |-> [rdy EXCEPT ![b] = Append(@, current)]]

\* A task starts and ends its life with nothing left in the FPU.
fp_reset(task) ==
    [a \in DOMAIN fp_left \cup {task} |-> IF a = task THEN "none" ELSE fp_left[a]]

do_init_task ==
    /\ current = 0
    /\ \E m \in HeapOutcomes :
        LET r == allocate(m) IN
        /\ r.res = "Ok"
        /\ tcb' = [r.mgr.tcb EXCEPT ![r.task] =
                      [@ EXCEPT !.band = N_BANDS - 1, !.ended = FALSE, !.idle = TRUE,
                                !.remaining_quantum = QUANTUM, !.greedy_count = 0,
                                !.fpu_used_once = FALSE]]
        /\ empty_queue' = r.mgr.empty_queue
        /\ task_map' = r.mgr.task_map
        /\ use_count' = r.mgr.use_count
        /\ alloc_count' = r.mgr.alloc_count
        /\ held' = held \cup {r.task}
        /\ current' = r.task
        /\ idle_task' = r.task
        /\ fp_left' = fp_reset(r.task)
    /\ UNCHANGED <<last, run, ready, wait, sleep, die, now,
                   fpu_owner, ts, fpu_regs, last_fp>>

init_task == do_init_task /\ UNCHANGED bvars

do_create_task(bands) ==
    /\ current # 0
    /\ \E m \in HeapOutcomes, b \in bands :
        LET r == allocate(m) IN
        IF r.res = "Err"
        THEN /\ SetManager(r.mgr)
             /\ UNCHANGED <<held, ready, fp_left>>
        ELSE /\ tcb' = [r.mgr.tcb EXCEPT ![r.task] =
                           [@ EXCEPT !.band = b, !.ended = FALSE, !.idle = FALSE,
                                     !.remaining_quantum = QUANTUM,
                                     !.greedy_count = 0, !.context = "entry",
                                     !.fpu_used_once = FALSE]]
             /\ empty_queue' = r.mgr.empty_queue
             /\ task_map' = r.mgr.task_map
             /\ use_count' = r.mgr.use_count
             /\ alloc_count' = r.mgr.alloc_count
             /\ held' = held \cup {r.task}
             /\ ready' = [ready EXCEPT ![b] = Append(@, r.task)]
             /\ fp_left' = fp_reset(r.task)
    /\ UNCHANGED <<last, run, wait, sleep, die, current, idle_task, now,
                   fpu_owner, ts, fpu_regs, last_fp>>

\* Task creation while the allocation counter has not come back to 0.
create_task ==
    /\ alloc_count < USIZE_MOD - 1
    /\ do_create_task(Bands)
    /\ UNCHANGED bvars

\* Task creation at any value of the allocation counter, in the most urgent
\* band.
create_task_any == do_create_task({0}) /\ UNCHANGED bvars

\* The sleepers whose deadline has come at tick `t`, in list order.
\* (faulty variant: a deadline equal to the tick is not yet due)
due_strictly_after(q, t) == SelectSeq(q, LAMBDA e : e.deadline < t)
due(q, t) == SelectSeq(q, LAMBDA e : e.deadline <= t)

\* The timer-tick dispatcher.
do_tick ==
    /\ current # 0
    /\ now < MaxTick
    /\ now' = now + 1
    /\ LET woken == due(sleep, now + 1)
           rdy == push_all(ready, Tasks(woken), tcb)
           mem == [tcb EXCEPT ![current].remaining_quantum = @ - 1]
       IN /\ sleep' = SelectSeq(sleep, LAMBDA e : e \notin Elems(woken))
          /\ IF mem[current].remaining_quantum <= 0
                /\ \E b \in Bands : rdy[b] # <<>>
             THEN LET q == requeue(mem, rdy, TRUE) IN Dispatch(q.tcb, q.ready)
             ELSE /\ tcb' = mem
                  /\ ready' = rdy
                  /\ UNCHANGED <<current, ts>>
    /\ UNCHANGED <<empty_queue, task_map, use_count, alloc_count, ovars,
                   wait, die, idle_task, fkeep>>

tick == do_tick /\ UNCHANGED bvars

\* Voluntary yield.
schedule ==
    /\ current # 0
    /\ LET q == requeue(tcb, ready, FALSE) IN Dispatch(q.tcb, q.ready)
    /\ UNCHANGED <<empty_queue, task_map, use_count, alloc_count, ovars,
                   wait, sleep, die, idle_task, now, fkeep, bvars>>

block ==
    /\ current # 0
    /\ current # idle_task
    /\ \E r \in Reasons :
        /\ wait' = Append(wait, [task |-> current, reason |-> r])
        /\ Dispatch([tcb EXCEPT ![current].greedy_count = 0], ready)
    /\ UNCHANGED <<empty_queue, task_map, use_count, alloc_count, ovars,
                   sleep, die, idle_task, now, fkeep, bvars>>

\* The wait entries a wake for reason `r` takes, and those it leaves.
\* (faulty variant: the woken entries stay in the wait list)
wake_left_all(q, r) == q
wake_taken(q, r) == SelectSeq(q, LAMBDA e : e.reason = r)
wake_left(q, r) == SelectSeq(q, LAMBDA e : e.reason # r)

wake ==
    /\ current # 0
    /\ \E r \in Reasons :
        /\ ready' = push_all(ready, Tasks(wake_taken(wait, r)), tcb)
        /\ wait' = wake_left(wait, r)
    /\ UNCHANGED <<mvars, ovars, sleep, die, current, idle_task, now, fvars, bvars>>

\* The sleep list stays sorted by deadline; equal deadlines keep arrival order.
sleep_insert(q, e) ==
    SelectSeq(q, LAMBDA x : x.deadline <= e.deadline) \o <<e>>
        \o SelectSeq(q, LAMBDA x : x.deadline > e.deadline)

sleep_until ==
    /\ current # 0
    /\ current # idle_task
    /\ \E d \in {now, now + 2} :
        /\ sleep' = sleep_insert(sleep, [task |-> current, deadline |-> d])
        /\ Dispatch([tcb EXCEPT ![current].greedy_count = 0], ready)
    /\ UNCHANGED <<empty_queue, task_map, use_count, alloc_count, ovars,
                   wait, die, idle_task, now, fkeep, bvars>>

exit ==
    /\ current # 0
    /\ current # idle_task
    /\ die' = Append(die, current)
    /\ Dispatch([tcb EXCEPT ![current].ended = TRUE], ready)
    /\ UNCHANGED <<empty_queue, task_map, use_count, alloc_count, ovars,
                   wait, sleep, idle_task, now, fkeep, bvars>>

\* The reaper takes the head of the die list and frees it; a freed task that
\* owns the FPU stops being its owner.
reap ==
    /\ current # 0
    /\ die # <<>>
    /\ die' = Tail(die)
    /\ SetManager(free(Head(die)))
    /\ held' = held \ {Head(die)}
    /\ fpu_owner' = IF fpu_owner = Head(die) THEN 0 ELSE fpu_owner
    /\ fp_left' = fp_reset(Head(die))
    /\ UNCHANGED <<last, run, ready, wait, sleep, current, idle_task, now,
                   ts, fpu_regs, last_fp, bvars>>

SchedNext ==
    \/ init_task
    \/ create_task
    \/ tick
    \/ schedule
    \/ block
    \/ wake
    \/ sleep_until
    \/ exit
    \/ reap

SchedSpec == Init /\ [][SchedNext]_vars

--------------------------------------------------------------------------
(* FPU lazy save: a context switch marks the FPU unavailable, and the       *)
(* first FPU instruction of the task then running traps (#NM).              *)

\* The device-not-available trap handler: the owner's live registers are
\* saved into the owner's TCB when the owner is another task; current's
\* saved context is loaded if current has used the FPU before, else the FPU
\* is initialised; current becomes the owner.
nm_handler ==
    LET saved == IF fpu_owner # 0 /\ fpu_owner # current
                 THEN [tcb EXCEPT ![fpu_owner].fpu_context = fpu_regs]
                 ELSE tcb
        loaded == IF saved[current].fpu_used_once = TRUE
                  THEN saved[current].fpu_context
                  ELSE "reset"
    IN [tcb |-> [saved EXCEPT ![current].fpu_used_once = TRUE],
        regs |-> loaded,
        owner |-> current]

\* Register contents that differ from each other and from the contents of a
\* new, a reset and an uninitialised context: one per TCB address.
FpValues == <<"fa", "fb", "fc", "fd", "fe", "ff">>

\* The value a task's FPU instruction leaves in the registers.
fp_next(task) == FpValues[task]

\* current executes an FPU instruction (the multiply and divide of
\* test_thread): it traps first if the FPU is unavailable, then reads the
\* registers and leaves a new value in them.
fpu_use ==
    /\ current # 0
    /\ LET h == IF ts THEN nm_handler
                ELSE [tcb |-> tcb, regs |-> fpu_regs, owner |-> fpu_owner] IN
        /\ ts' = FALSE
        /\ tcb' = h.tcb
        /\ fpu_owner' = h.owner
        /\ last_fp' = IF fp_left[current] \in {"none", h.regs}
                      THEN NoFp
                      ELSE [task |-> current, found |-> h.regs,
                            left |-> fp_left[current]]
        /\ fpu_regs' = fp_next(current)
        /\ fp_left' = [fp_left EXCEPT ![current] = fp_next(current)]
    /\ UNCHANGED <<empty_queue, task_map, use_count, alloc_count, ovars, svars, bvars>>

FpuNext ==
    \/ init_task
    \/ create_task_any
    \/ schedule
    \/ exit
    \/ reap
    \/ fpu_use

FpuSpec == Init /\ [][FpuNext]_vars

--------------------------------------------------------------------------
(* kernel_main: the boot sequence, with the timer interrupt and the first   *)
(* task (print_input) once they exist.                                      *)

\* (faulty variant: interrupts are enabled before the heap is initialised)
BootSteps_enable_early ==
    <<"set_interrupt(false)", "init_graphic", "init_console", "init_gdt",
      "init_idt", "init_page", "set_interrupt(true)", "init_heap", "init_task",
      "init_fs", "acpi::initialize", "ioapic::init", "init_pm",
      "apic_timer().init", "init_pci", "xhc", "ide">>
\* The statements of kernel_main that initialise something, in program order.
BootSteps ==
    <<"set_interrupt(false)", "init_graphic", "init_console", "init_gdt",
      "init_idt", "init_page", "init_heap", "init_task", "init_fs",
      "acpi::initialize", "ioapic::init", "init_pm", "apic_timer().init",
      "set_interrupt(true)", "init_pci", "xhc", "ide">>

Booting == pc \in DOMAIN BootSteps
Done(step) == step \in Elems(boot_log)
Advance ==
    /\ pc' = pc + 1
    /\ boot_log' = Append(boot_log, BootSteps[pc])

\* kernel_main runs as the task init_task made current, so it advances only
\* while no other task has the CPU.
BootTaskRuns == current = idle_task

BootInit ==
    /\ new
    /\ held = {}
    /\ last = NoLast
    /\ run = 0
    /\ SchedulerOff
    /\ FpuOff
    /\ pc = 1
    /\ interrupts \in BOOLEAN
    /\ boot_log = <<>>

set_interrupt ==
    /\ Booting
    /\ BootSteps[pc] \in {"set_interrupt(false)", "set_interrupt(true)"}
    /\ BootTaskRuns
    /\ interrupts' = (BootSteps[pc] = "set_interrupt(true)")
    /\ Advance
    /\ UNCHANGED <<mvars, ovars, svars, fvars>>

\* A step that touches neither the interrupt flag nor the task subsystem.
boot_step ==
    /\ Booting
    /\ BootSteps[pc] \notin
           {"set_interrupt(false)", "set_interrupt(true)", "init_task", "xhc"}
    /\ BootTaskRuns
    /\ Advance
    /\ UNCHANGED <<mvars, ovars, svars, fvars, interrupts>>

boot_init_task ==
    /\ Booting
    /\ BootSteps[pc] = "init_task"
    /\ do_init_task
    /\ Advance
    /\ UNCHANGED interrupts

\* An xHC was found: the print_input task is created.
boot_create_task ==
    /\ Booting
    /\ BootSteps[pc] = "xhc"
    /\ BootTaskRuns
    /\ do_create_task(Bands)
    /\ Advance
    /\ UNCHANGED interrupts

\* No xHC was found.
boot_no_xhc ==
    /\ Booting
    /\ BootSteps[pc] = "xhc"
    /\ BootTaskRuns
    /\ Advance
    /\ UNCHANGED <<mvars, ovars, svars, fvars, interrupts>>

\* The APIC timer interrupt is delivered once the timer is programmed and
\* interrupts are enabled, and enters the tick dispatcher.
timer_interrupt ==
    /\ interrupts
    /\ Done("apic_timer().init")
    /\ do_tick
    /\ UNCHANGED bvars

\* print_input waits for a key in getch.
boot_block ==
    /\ interrupts
    /\ block

\* The keyboard interrupt wakes it.
boot_wake ==
    /\ interrupts
    /\ wake

BootNext ==
    \/ set_interrupt
    \/ boot_step
    \/ boot_init_task
    \/ boot_create_task
    \/ boot_no_xhc
    \/ timer_interrupt
    \/ boot_block
    \/ boot_wake

BootSpec == BootInit /\ [][BootNext]_vars

--------------------------------------------------------------------------
(* Properties of the manager driven directly (Spec).                       *)

Occurrences(q, t) == Cardinality({i \in DOMAIN q : q[i] = t})

\* C1: allocate returns Err whenever it is called with use_count at
\* TASKPOOL_SIZE; from the empty manager, with no free and no malloc failure,
\* the first TASKPOOL_SIZE calls succeed and every later one fails.
C1_PoolExhaustedAtCapacity ==
    [][last'.op = "allocate" =>
         /\ (use_count = TASKPOOL_SIZE => last'.res = "Err")
         /\ (run' >= 0 =>
               /\ use_count' = Min(run', TASKPOOL_SIZE)
               /\ (last'.res = "Err" <=> run' > TASKPOOL_SIZE))]_vars

C1_Witness ==
    /\ run = TASKPOOL_SIZE + 1
    /\ last.op = "allocate"
    /\ last.res = "Err"
    /\ use_count = TASKPOOL_SIZE

\* C2: a failing allocate (pool at capacity, or malloc null with the
\* empty-queue empty) leaves use_count, alloc_count, task_map, empty_queue
\* and every TCB as they were.
C2_FailedAllocateMutatesNothing ==
    [][(last'.op = "allocate" /\ last'.res = "Err")
         => UNCHANGED <<use_count, alloc_count, task_map, empty_queue, tcb>>]_vars

C2_Witness ==
    /\ last.op = "allocate"
    /\ last.res = "Err"
    /\ use_count = TASKPOOL_SIZE
    /\ run = -1
    /\ alloc_count = 0

\* C5: use_count never exceeds TASKPOOL_SIZE.
C5_UseCountBounded == use_count <= TASKPOOL_SIZE

C5_Witness ==
    /\ use_count = TASKPOOL_SIZE
    /\ last.op = "allocate"
    /\ last.res = "Ok"
    /\ run = -1

C7_LiveIdsDistinct ==
    \A a, b \in held : a # b => tcb[a].id # tcb[b].id

\* C8: get(id) returns a live task whose id is `id` whenever one exists,
\* and NotFound otherwise.
C8_GetIsLookupOverLive ==
    last.op = "get" =>
        IF \E t \in held : tcb[t].id = last.id
        THEN last.res = "Ok" /\ last.task \in held /\ tcb[last.task].id = last.id
        ELSE last.res = "NotFound"

\* C9: free(task) removes the task's id from task_map, clears its lineage,
\* zeroes both contexts, appends it to empty_queue, decrements use_count by
\* one, and leaves alloc_count and the map entry of every other live task
\* as they were.
C9_FreeEffects ==
    [][last'.op = "free" /\ use_count' # use_count =>
         LET task == last'.task IN
         /\ tcb[task].id \notin DOMAIN task_map'
         /\ tcb'[task].parent = "None"
         /\ tcb'[task].child = "None"
         /\ tcb'[task].sibling = "None"
         /\ tcb'[task].context = "empty"
         /\ tcb'[task].fpu_context = "new"
         /\ empty_queue' = Append(empty_queue, task)
         /\ use_count' = use_count - 1
         /\ alloc_count' = alloc_count
         /\ \A k \in DOMAIN task_map :
               task_map[k] \in held \ {task} =>
                   k \in DOMAIN task_map' /\ task_map'[k] = task_map[k]]_vars

\* C15: the TCB a successful allocate returns has every field other than id
\* at its default (flags, quantum, greedy count, fpu_used_once, lineage,
\* cpu and fpu context).
C15_AllocatedTaskIsDefault ==
    (last.op = "allocate" /\ last.res = "Ok") =>
        tcb[last.task] = [DefaultTask EXCEPT !.id = tcb[last.task].id]

\* C18: an allocate that succeeds while the empty-queue is non-empty returns
\* its head, takes it off the queue and obtains no block from the heap, and
\* it succeeds whatever the heap would answer; one that succeeds while the
\* empty-queue is empty returns a block new from the heap; no other step
\* obtains a block; the blocks obtained never number more than TASKPOOL_SIZE.
C18_HeapOnlyWhenQueueEmpty ==
    [][/\ use_count' = use_count + 1 =>
            IF empty_queue # <<>>
            THEN /\ last'.task = Head(empty_queue)
                 /\ empty_queue' = Tail(empty_queue)
                 /\ DOMAIN tcb' = DOMAIN tcb
            ELSE /\ last'.task \notin DOMAIN tcb
                 /\ DOMAIN tcb' = DOMAIN tcb \cup {last'.task}
                 /\ empty_queue' = <<>>
       /\ DOMAIN tcb' # DOMAIN tcb => use_count' = use_count + 1
       /\ (empty_queue # <<>> /\ use_count < TASKPOOL_SIZE /\ last' # last)
            => (last'.op = "allocate" => last'.res = "Ok")
       /\ Cardinality(DOMAIN tcb') <= TASKPOOL_SIZE]_vars

\* allocate has just returned a TCB that free had reset, while another freed
\* TCB stays on the empty-queue and TASKPOOL_SIZE blocks have been obtained.
C18_Witness ==
    /\ last.op = "allocate"
    /\ last.res = "Ok"
    /\ tcb[last.task].context = "empty"
    /\ empty_queue # <<>>
    /\ Cardinality(Addresses) = TASKPOOL_SIZE

\* C20: every TCB obtained from the heap is either a value of the id map
\* (live) or on the empty-queue, never both and never neither; use_count is
\* the number of entries of the id map; no TCB is twice on the empty-queue;
\* the TCB allocate has just returned is not on the empty-queue.
C20_PoolPartition ==
    /\ \A t \in Addresses :
          (\E id \in DOMAIN task_map : task_map[id] = t) # (t \in Elems(empty_queue))
    /\ use_count = Cardinality(DOMAIN task_map)
    /\ \A t \in Addresses : Occurrences(empty_queue, t) <= 1
    /\ (last.op = "allocate" /\ last.res = "Ok") => last.task \notin Elems(empty_queue)

--------------------------------------------------------------------------
(* Properties of the scheduler on top of the manager (SchedSpec).          *)

RECURSIVE SumLen(_, _)
SumLen(rdy, b) == IF b < 0 THEN 0 ELSE Len(rdy[b]) + SumLen(rdy, b - 1)

\* Every entry of every scheduler list, as one sequence of addresses.
RECURSIVE ReadyAll(_, _)
ReadyAll(rdy, b) == IF b < 0 THEN <<>> ELSE ReadyAll(rdy, b - 1) \o rdy[b]
Linked == ReadyAll(ready, N_BANDS - 1) \o Tasks(wait) \o Tasks(sleep) \o die

ListedCount == SumLen(ready, N_BANDS - 1) + Len(wait) + Len(sleep) + Len(die)

Pos(q, t) == CHOOSE i \in DOMAIN q : q[i] = t

InReady(rdy, t) == t \in Elems(ReadyAll(rdy, N_BANDS - 1))

QuantumExpired ==
    /\ now' # now
    /\ current \notin {0, idle_task}
    /\ (current' # current \/ tcb'[current].remaining_quantum = QUANTUM)

--------------------------------------------------------------------------
(* Properties of FPU lazy save (FpuSpec).                                  *)

--------------------------------------------------------------------------
(* Properties of the boot sequence (BootSpec).                             *)

Before(a, b) == Done(a) /\ Done(b) /\ Pos(boot_log, a) < Pos(boot_log, b)

====
